---- MODULE Spec2Model ----
(***************************************************************************)
(* Batch coordinator and Progress Store of deep-sight                      *)
(* (src/src/processors/batch_processor.py), with the parts of the per-image*)
(* pipeline (processor.py, llm_agent.py) that decide what a batch records. *)
(*                                                                         *)
(* One folder is modelled.  Paths are the naturals 1..NumPaths; numeric    *)
(* order stands for the lexicographic order of the path strings.           *)
(***************************************************************************)
EXTENDS Integers, Sequences, FiniteSets, TLC

\* ------------------------------------------------------------------ bounds
NumPaths == 3          \* paths that may exist under the folder or be keys of its progress file
MaxBatches == 1        \* process_folder calls that register a batch
MaxInterval == 2       \* largest configured batch.checkpoint_interval

Paths == 1..NumPaths
BatchIds == 1..MaxBatches
CallerIds == 1..(MaxBatches + 1)   \* ids when one more caller starts a batch
Intervals == 0..MaxInterval

\* Path 2 stands for a file in a sub-directory (seen by rglob only).
InSubdir(p) == p = 2

VARIABLES
    folder,                 \* image files present under the folder
    checkpoint_interval,    \* self.checkpoint_interval
    progress_file,          \* content of <folder>/<name>_progress.yml
    active_batches,         \* BatchProcessor._active_batches
    batch_lock,             \* BatchProcessor._batch_lock: 0 free, else the holding thread
    pc,                     \* position of each batch's background thread
    images,                 \* thread argument: remaining_images
    idx,                    \* loop index of enumerate(images)
    image_data_map,         \* thread argument: mapping destined for the progress file
    image_data,             \* local: what process_image returned for images[idx]
    recursive,              \* the recursive flag each batch was started with
    last_result,            \* what the last process_folder call returned or raised
    store_at_start,         \* history: progress file content when the batch was started
    calls,                  \* history: paths each batch passed to process_image, in order
    desc_error,             \* history, kept in SpecDescribe only: first (batch, path) whose
                            \* describe_image call hit a connection error
    save_ok,                \* history: outcome of each batch's most recent _save_progress
    handle,                 \* what the last get_batch_status / get_all_batches call
                            \* returned to its caller (SpecReader only)
    ocr_env,                \* what the installation offers a TextExtractor: modules that
                            \* import, model files present and loadable
    extractor,              \* the TextExtractor instance: its attributes
    extraction,             \* the last extract_text / extract_text_with_details call:
                            \* its arguments, what it invoked and what it returned
    translation,            \* the last direct translate_text call and its result
    pipeline,               \* the last direct process_image call and its result
    response                \* the last HTTP response of the batch routes of api/main.py

batch_vars == <<folder, checkpoint_interval, progress_file, active_batches, batch_lock,
                pc, images, idx, image_data_map, image_data, recursive, last_result,
                store_at_start, calls, desc_error, save_ok>>

\* The variables no step of process_folder or of a batch thread writes.
extractor_vars == <<ocr_env, extractor, extraction>>

pipeline_vars == <<translation, pipeline>>

outside_batch == <<handle, extractor_vars, pipeline_vars, response>>

vars == <<batch_vars, outside_batch>>

\* ------------------------------------------------------------ small helpers
Min(S) == CHOOSE x \in S : \A y \in S : x <= y

RECURSIVE sorted(_)
sorted(S) == IF S = {} THEN <<>> ELSE <<Min(S)>> \o sorted(S \ {Min(S)})

Range(s) == {s[i] : i \in 1..Len(s)}

EmptyMap == [p \in {} |-> 0]

\* ------------------------------------------------------------------ records
\* ImageData with every optional field at its default (image_data.py 16-27):
\* what the except branch of process_image returns.
PartialImageData(p) ==
    [image_name |-> p, extracted_text |-> "", description |-> "",
     translated_text |-> "", image_size |-> "none", original_path |-> p,
     processing_time |-> "elapsed"]

FullImageData(p, desc) ==
    [image_name |-> p, extracted_text |-> "text", description |-> desc,
     translated_text |-> "translated", image_size |-> "resized", original_path |-> p,
     processing_time |-> "elapsed"]

\* A record found in the progress file from an earlier run, possibly edited by hand.
StoredRecord(p) ==
    [image_name |-> p, extracted_text |-> "edited", description |-> "stored",
     translated_text |-> "edited", image_size |-> "resized", original_path |-> p,
     processing_time |-> "elapsed"]

NoImageData == [image_name |-> 0, extracted_text |-> "", description |-> "",
                translated_text |-> "", image_size |-> "none", original_path |-> 0,
                processing_time |-> "unset"]

\* --------------------------------------------------------------- the file
\* File contents: missing, empty (zero bytes), garbage (not YAML), list (YAML
\* but not a mapping), map (a YAML mapping, written as its key-sorted entries).
FileOf(kind, entries) == [kind |-> kind, entries |-> entries]

\* yaml.dump(image_data_map, f, ...): sort_keys defaults to True.
yaml_dump(m) ==
    LET ks == sorted(DOMAIN m)
    IN  FileOf("map", [i \in 1..Len(ks) |-> <<ks[i], m[ks[i]]>>])

\* yaml.safe_load(f): raises on garbage, None for an empty document.
yaml_safe_load(f) ==
    CASE f.kind = "garbage" -> [exc |-> TRUE,  type |-> "none", dict |-> EmptyMap]
      [] f.kind = "empty"   -> [exc |-> FALSE, type |-> "none", dict |-> EmptyMap]
      [] f.kind = "list"    -> [exc |-> FALSE, type |-> "list", dict |-> EmptyMap]
      [] OTHER              ->
            [exc |-> FALSE, type |-> "dict",
             dict |-> [k \in {f.entries[i][1] : i \in 1..Len(f.entries)} |->
                         LET i == CHOOSE j \in 1..Len(f.entries) :
                                     /\ f.entries[j][1] = k
                                     /\ \A l \in 1..Len(f.entries) :
                                            f.entries[l][1] = k => l <= j
                         IN  f.entries[i][2]]]

NoProgress == [raised |-> FALSE, processed_files |-> {}, data |-> EmptyMap]

\* Variant: the key set is returned without the loaded mapping.
load_progress_keys_only(f) ==
    IF f.kind = "missing" THEN NoProgress
    ELSE LET r == yaml_safe_load(f)
         IN  IF r.exc \/ r.type # "dict" THEN NoProgress
             ELSE [raised |-> FALSE, processed_files |-> DOMAIN r.dict, data |-> EmptyMap]

\* Variant: no try/except around the parse and the key extraction.
load_progress_unguarded(f) ==
    IF f.kind = "missing" THEN NoProgress
    ELSE LET r == yaml_safe_load(f)
         IN  IF r.exc THEN [raised |-> TRUE, processed_files |-> {}, data |-> EmptyMap]
             ELSE IF r.type = "none" THEN NoProgress
             ELSE IF r.type # "dict"
                  THEN [raised |-> TRUE, processed_files |-> {}, data |-> EmptyMap]
             ELSE [raised |-> FALSE, processed_files |-> DOMAIN r.dict, data |-> r.dict]

\* BatchProcessor._load_progress
load_progress(f) ==
    IF f.kind = "missing" THEN NoProgress
    ELSE LET r == yaml_safe_load(f)
         IN  IF r.exc THEN NoProgress                    \* except Exception
             ELSE IF r.type = "none" THEN NoProgress     \* `or {}`
             ELSE IF r.type # "dict" THEN NoProgress     \* data.keys() raises, caught
             ELSE [raised |-> FALSE, processed_files |-> DOMAIN r.dict, data |-> r.dict]

IoOutcomes == {"ok", "open_fails", "write_fails"}

\* Variant: the records are dumped as a list, without their keys.
save_progress_values(f, m, io) ==
    CASE io = "ok"         -> FileOf("list", <<>>)
      [] io = "open_fails" -> f
      [] OTHER             -> FileOf("empty", <<>>)

\* BatchProcessor._save_progress: open(..., 'w') truncates, then dumps.
save_progress(f, m, io) ==
    CASE io = "ok"         -> yaml_dump(m)
      [] io = "open_fails" -> f
      [] OTHER             -> FileOf("empty", <<>>)

\* ------------------------------------------------------------- enumeration
RECURSIVE reversed(_)
reversed(s) == IF s = <<>> THEN <<>> ELSE reversed(Tail(s)) \o <<Head(s)>>

\* Variant: the list returned in another order than sorted.
get_images_from_folder_unsorted(fold, rec) ==
    reversed(sorted({p \in fold : rec \/ ~InSubdir(p)}))

\* BatchProcessor._get_images_from_folder
get_images_from_folder(fold, rec) ==
    sorted({p \in fold : rec \/ ~InSubdir(p)})

\* ------------------------------------------------------------- the pipeline
\* LLMAgent.translate_text(self, target_language, text, text_context, scene)
TranslateParams == 4
\* process_image calls translate_text(extracted_text, 'hindi')
TranslateArgs == 2

\* LLMAgent.describe_image: a connection error is turned into an empty response.
describe_image(conn) ==
    IF conn = "ok" THEN [success |-> TRUE, description |-> "desc"]
    ELSE [success |-> FALSE, description |-> ""]

\* The texts translate_text is given: empty, whitespace only, or words.
Texts == {"", " ", "text"}
IsBlank(text) == text \in {"", " "}       \* not text or not text.strip()

CheckOutcomes == {"up", "down"}           \* check_connection: GET /api/tags answers 200 or not
GenerateOutcomes == {"200", "500", "timeout", "conn_error"}     \* POST /api/generate

\* LLMAgent.translate_text: the connection check comes first, the test for an
\* empty text second.  requests: the HTTP requests it issued, in order.
translate_text(text, check, generate) ==
    IF check = "down"
    THEN [success |-> FALSE, translated_text |-> text, requests |-> <<"GET /api/tags">>]
    ELSE IF IsBlank(text)
    THEN [success |-> TRUE, translated_text |-> "", requests |-> <<"GET /api/tags">>]
    ELSE IF generate = "200"
    THEN [success |-> TRUE, translated_text |-> "translated",
          requests |-> <<"GET /api/tags", "POST /api/generate">>]
    ELSE [success |-> FALSE, translated_text |-> text,
          requests |-> <<"GET /api/tags", "POST /api/generate">>]

\* The steps of process_image up to the call that lacks arguments, and all of them.
StepsToTranslate == <<"extract_text", "resize_image", "describe_image", "translate_text">>
AllSteps == StepsToTranslate \o <<"translate_text", "assemble", "save_to_storage">>

\* Variant: no try/except around the steps; an error of resize_image propagates.
process_image_unguarded(p, resize, conn) ==
    IF resize = "throws"
    THEN [raised |-> TRUE, data |-> NoImageData, described |-> FALSE,
          steps |-> <<"extract_text", "resize_image">>]
    ELSE LET d == describe_image(conn)
         IN  IF TranslateArgs < TranslateParams
             THEN [raised |-> TRUE, data |-> NoImageData, described |-> TRUE,
                   steps |-> StepsToTranslate]
             ELSE [raised |-> FALSE, data |-> FullImageData(p, d.description),
                   described |-> TRUE, steps |-> AllSteps]

\* ImageProcessorOrchestrator.process_image.  resize: "ok" or "throws";
\* conn: "ok" or "conn_error".  Returns the record, whether it raised, and the
\* steps it went through.
process_image(p, resize, conn) ==
    IF resize = "throws"
    THEN [raised |-> FALSE, data |-> PartialImageData(p), described |-> FALSE,
          steps |-> <<"extract_text", "resize_image">>]
    ELSE LET d == describe_image(conn)
         IN  IF TranslateArgs < TranslateParams       \* TypeError, caught at 112
             THEN [raised |-> FALSE, data |-> PartialImageData(p), described |-> TRUE,
                   steps |-> StepsToTranslate]
             ELSE [raised |-> FALSE, data |-> FullImageData(p, d.description),
                   described |-> TRUE, steps |-> AllSteps]

NoTranslation ==
    [op |-> "none", text |-> "", check |-> "none", generate |-> "none",
     success |-> FALSE, translated_text |-> "", requests |-> <<>>]

NoPipeline ==
    [op |-> "none", image_path |-> 0, resize |-> "none", conn |-> "none",
     raised |-> FALSE, data |-> NoImageData, steps |-> <<>>]

\* ------------------------------------------------------- the text extractor
\* Python values whose type matters: a str, or None.
Str(v) == [type |-> "str", value |-> v]
None == [type |-> "NoneType", value |-> "None"]

\* What the installation offers.  tensorflow: imports or not; the two model
\* files: present or not, loadable by load_model or not; keras_ocr: imports
\* and Pipeline() builds, or ImportError, or Pipeline() raises; pytesseract:
\* usable, or ImportError, or get_tesseract_version() raises.
OcrEnvs ==
    [tensorflow : {"ok", "import_error"},
     craft_file : BOOLEAN, crnn_file : BOOLEAN,
     craft_loads : BOOLEAN, crnn_loads : BOOLEAN,
     keras_ocr : {"ok", "import_error", "init_error"},
     tesseract : {"ok", "import_error", "no_binary"}]

NoFallback == [raised |-> FALSE, fallback_pipeline |-> "None", fallback_method |-> None]

\* Variant: tesseract tried before keras-ocr.
initialize_fallback_tesseract_first(env) ==
    IF env.tesseract = "ok"
    THEN [raised |-> FALSE, fallback_pipeline |-> "pytesseract",
          fallback_method |-> Str("tesseract")]
    ELSE IF env.keras_ocr = "ok"
    THEN [raised |-> FALSE, fallback_pipeline |-> "keras_ocr",
          fallback_method |-> Str("keras-ocr")]
    ELSE IF env.keras_ocr = "init_error"
    THEN [raised |-> TRUE, fallback_pipeline |-> "None", fallback_method |-> None]
    ELSE NoFallback

\* TextExtractor._initialize_fallback: only ImportError leads from keras-ocr to
\* tesseract; another exception of Pipeline() leaves the method.
initialize_fallback(env) ==
    IF env.keras_ocr = "ok"
    THEN [raised |-> FALSE, fallback_pipeline |-> "keras_ocr",
          fallback_method |-> Str("keras-ocr")]
    ELSE IF env.keras_ocr = "init_error"
    THEN [raised |-> TRUE, fallback_pipeline |-> "None", fallback_method |-> None]
    ELSE IF env.tesseract = "ok"
    THEN [raised |-> FALSE, fallback_pipeline |-> "pytesseract",
          fallback_method |-> Str("tesseract")]
    ELSE NoFallback

Unconstructed ==
    [state |-> "unconstructed", craft_model |-> FALSE, crnn_model |-> FALSE,
     fallback_pipeline |-> "None", fallback_method |-> None]

\* TextExtractor.__init__ / _initialize_models.  craft_model, crnn_model: TRUE
\* when the attribute is not None.  An exception of _initialize_fallback is
\* raised again by the handler of line 116, or leaves the handler of line 113:
\* the constructor raises.
initialize_models(env) ==
    LET fb == initialize_fallback(env)
        with_fallback ==
            [state |-> IF fb.raised THEN "raised" ELSE "constructed",
             craft_model |-> FALSE, crnn_model |-> FALSE,
             fallback_pipeline |-> fb.fallback_pipeline,
             fallback_method |-> fb.fallback_method]
    IN  IF env.tensorflow = "import_error" THEN with_fallback
        ELSE IF env.craft_file /\ env.crnn_file
        THEN [state |-> "constructed",
              craft_model |-> env.craft_loads, crnn_model |-> env.crnn_loads,
              fallback_pipeline |-> "None", fallback_method |-> None]   \* lines 119-122
        ELSE with_fallback

\* What image_path names: a readable image, no file, a file cv2.imread cannot
\* decode, or a value Path() rejects.
ImagePathKinds == {"image", "missing", "unreadable", "invalid"}
DetectOutcomes == {"ok", "throws"}                \* craft_model.predict
EngineOutcomes == {"text", "blank", "throws"}     \* crnn_model.predict, or the fallback engine

\* Texts are written as their sequence of words; "" is <<>>.
\* _detect_text_regions: the four quadrants, or the whole image when there is
\* no detector or it raises.
detect_text_regions(ex, detect) ==
    IF ex.craft_model /\ detect = "ok" THEN 4 ELSE 1

\* _recognize_text on one region ("extracted_text" is the placeholder decoder's output).
recognize_text(ex, engine) ==
    IF ex.crnn_model /\ engine = "text" THEN <<"extracted_text">> ELSE <<>>

RECURSIVE join(_, _)
join(n, words) == IF n = 0 THEN <<>> ELSE words \o join(n - 1, words)

\* _extract_with_tensorflow
extract_with_tensorflow(ex, detect, engine) ==
    [text |-> join(detect_text_regions(ex, detect), recognize_text(ex, engine)),
     invoked |-> (IF ex.craft_model THEN {"craft_model"} ELSE {})
                   \cup (IF ex.crnn_model THEN {"crnn_model"} ELSE {})]

\* Variant: when the keras-ocr engine raises, tesseract is run in the same call.
extract_with_fallback_cascading(ex, engine) ==
    IF ex.fallback_pipeline = "None" THEN [text |-> <<>>, invoked |-> {}]
    ELSE [text |-> IF engine = "text" THEN <<"text">> ELSE <<>>,
          invoked |-> IF engine = "throws" /\ ex.fallback_method = Str("keras-ocr")
                      THEN {"keras-ocr", "tesseract"}
                      ELSE {ex.fallback_method.value}]

\* _extract_with_fallback, _extract_with_keras_ocr, _extract_with_tesseract
extract_with_fallback(ex, engine) ==
    IF ex.fallback_pipeline = "None" THEN [text |-> <<>>, invoked |-> {}]
    ELSE [text |-> IF engine = "text" THEN <<"text">> ELSE <<>>,
          invoked |-> {ex.fallback_method.value}]

\* Variant: without the try/except of lines 268 and 286-288.
extract_text_unguarded(ex, path_kind, detect, engine) ==
    IF path_kind = "invalid" THEN [raised |-> TRUE, text |-> <<>>, invoked |-> {}]
    ELSE IF path_kind # "image" THEN [raised |-> FALSE, text |-> <<>>, invoked |-> {}]
    ELSE LET r == IF ex.craft_model \/ ex.crnn_model
                  THEN extract_with_tensorflow(ex, detect, engine)
                  ELSE extract_with_fallback(ex, engine)
         IN  [raised |-> FALSE, text |-> r.text, invoked |-> r.invoked]

\* TextExtractor.extract_text
extract_text(ex, path_kind, detect, engine) ==
    IF path_kind = "invalid"                       \* Path() raises, caught at 286
    THEN [raised |-> FALSE, text |-> <<>>, invoked |-> {}]
    ELSE IF path_kind = "missing"                  \* lines 270-272
    THEN [raised |-> FALSE, text |-> <<>>, invoked |-> {}]
    ELSE IF path_kind = "unreadable"               \* _preprocess_image returns None
    THEN [raised |-> FALSE, text |-> <<>>, invoked |-> {}]
    ELSE LET r == IF ex.craft_model \/ ex.crnn_model
                  THEN extract_with_tensorflow(ex, detect, engine)
                  ELSE extract_with_fallback(ex, engine)
         IN  [raised |-> FALSE, text |-> r.text, invoked |-> r.invoked]

\* extract_text_with_details 387-389: getattr(self, 'fallback_method', 'none');
\* the attribute exists on every constructed instance.
\* Variant: the primary-tier name only when both models are loaded.
method_used_needs_both(ex) ==
    IF ex.craft_model /\ ex.crnn_model THEN Str("tensorflow") ELSE ex.fallback_method

method_used(ex) ==
    IF ~ex.craft_model /\ ~ex.crnn_model THEN ex.fallback_method ELSE Str("tensorflow")

NoExtraction ==
    [op |-> "none", path_kind |-> "none", detect |-> "none", engine |-> "none",
     raised |-> FALSE, text |-> <<>>, invoked |-> {}, method_used |-> None]

\* ------------------------------------------------------------------- Init
NoDescError == [batch_id |-> 0, path |-> 0]
NotObserved == [batch_id |-> -1, path |-> 0]

NoResult == [kind |-> "none", batch_id |-> 0]

\* No request made yet.
NoResponse == [route |-> "none", cause |-> "none", status_code |-> 0]

\* No status call made yet.
NoHandle == [ids |-> {}, at_return |-> EmptyMap]

InitialFiles ==
    {FileOf(k, <<>>) : k \in {"missing", "garbage", "list"}}
      \cup {yaml_dump([p \in K |-> StoredRecord(p)]) : K \in SUBSET Paths}

InitCommon ==
    /\ folder \in {1..n : n \in 0..NumPaths}
    /\ checkpoint_interval \in Intervals
    /\ progress_file \in InitialFiles
    /\ active_batches = EmptyMap
    /\ batch_lock = 0
    /\ pc = [b \in CallerIds |-> "unborn"]
    /\ images = [b \in CallerIds |-> <<>>]
    /\ idx = [b \in CallerIds |-> 0]
    /\ image_data_map = [b \in CallerIds |-> EmptyMap]
    /\ image_data = [b \in CallerIds |-> NoImageData]
    /\ recursive = [b \in CallerIds |-> FALSE]
    /\ last_result = NoResult
    /\ store_at_start = [b \in CallerIds |-> FileOf("missing", <<>>)]
    /\ calls = [b \in CallerIds |-> <<>>]
    /\ save_ok = [b \in CallerIds |-> "none"]
    /\ handle = NoHandle
    /\ response = NoResponse

\* The text extractor is not followed.
ExtractorAside ==
    /\ ocr_env = CHOOSE env \in OcrEnvs : TRUE
    /\ extractor = Unconstructed
    /\ extraction = NoExtraction

\* No direct call of translate_text or process_image is followed.
PipelineAside == translation = NoTranslation /\ pipeline = NoPipeline

Init == InitCommon /\ desc_error = NotObserved /\ ExtractorAside /\ PipelineAside

\* The same program, with the connection errors of describe_image recorded.
InitDescribe == InitCommon /\ desc_error = NoDescError /\ ExtractorAside /\ PipelineAside

\* ---------------------------------------------------------------- actions
\* BatchProgress(...) as built by process_folder (batch_processor.py 76-83);
\* list(processed_files) is taken in sorted order.
\* Variant: the completed counter starts at zero whatever was loaded.
NewBatchProgress_zero_completed(b, imgs, processed_files) ==
    [batch_id |-> b,
     total_images |-> Len(imgs),
     completed_images |-> 0,
     failed_images |-> 0,
     status |-> "pending",
     start_time |-> "unset",
     end_time |-> "unset",
     processed_files |-> sorted(processed_files),
     failed_files |-> <<>>]

NewBatchProgress(b, imgs, processed_files) ==
    [batch_id |-> b,
     total_images |-> Len(imgs),
     completed_images |-> Cardinality(processed_files),
     failed_images |-> 0,
     status |-> "pending",
     start_time |-> "unset",
     end_time |-> "unset",
     processed_files |-> sorted(processed_files),
     failed_files |-> <<>>]

\* Variant: the filter of line 73 left out.
remaining_images_unfiltered(imgs, processed_files) == imgs

\* remaining_images = [img for img in images if img not in processed_files]
remaining_images(imgs, processed_files) ==
    LET keep(p) == p \notin processed_files IN SelectSeq(imgs, keep)

\* BatchProgress.pending_images
pending_images(batch) ==
    batch.total_images - batch.completed_images - batch.failed_images

\* What folder_path may name: the folder, nothing, or a regular file.
PathKinds == {"dir", "missing", "file"}

\* Variant: the check of lines 65-66 left out.
invalid_input_path_only(path_kind, imgs) == path_kind # "dir"

\* The two checks that raise ValueError: lines 56-57 (exists() and is_dir()),
\* lines 65-66 (no image found).
invalid_input(path_kind, imgs) == path_kind # "dir" \/ imgs = <<>>

\* BatchProcessor.process_folder(folder_path, recursive): folder_path names the
\* folder, or no file, or a regular file.  What the call does to the batch
\* coordinator.
process_folder_in(ids, path_kind, rec) ==
    LET imgs == get_images_from_folder(folder, rec)
        b == Cardinality(DOMAIN active_batches) + 1
        lp == load_progress(progress_file)
    IN  IF invalid_input(path_kind, imgs)
        THEN /\ last_result' = [kind |-> "ValueError", batch_id |-> 0]
             /\ UNCHANGED <<folder, checkpoint_interval, progress_file, active_batches,
                            batch_lock, pc, images, idx, image_data_map, image_data,
                            recursive, store_at_start, calls, desc_error, save_ok>>
        ELSE IF lp.raised
        THEN /\ last_result' = [kind |-> "Exception", batch_id |-> 0]
             /\ UNCHANGED <<folder, checkpoint_interval, progress_file, active_batches,
                            batch_lock, pc, images, idx, image_data_map, image_data,
                            recursive, store_at_start, calls, desc_error, save_ok>>
        ELSE /\ b \in ids
             /\ batch_lock = 0
             /\ active_batches' =
                    [x \in DOMAIN active_batches \cup {b} |->
                        IF x = b THEN NewBatchProgress(b, imgs, lp.processed_files)
                        ELSE active_batches[x]]
             /\ images' = [images EXCEPT ![b] = remaining_images(imgs, lp.processed_files)]
             /\ image_data_map' = [image_data_map EXCEPT ![b] = lp.data]
             /\ idx' = [idx EXCEPT ![b] = 0]
             /\ pc' = [pc EXCEPT ![b] = "set_processing"]
             /\ recursive' = [recursive EXCEPT ![b] = rec]
             /\ store_at_start' = [store_at_start EXCEPT ![b] = progress_file]
             /\ last_result' = [kind |-> "batch_id", batch_id |-> b]
             /\ UNCHANGED <<folder, checkpoint_interval, progress_file, batch_lock,
                            image_data, calls, desc_error, save_ok>>

\* process_folder called directly.
process_folder_call(path_kind, rec) == process_folder_in(BatchIds, path_kind, rec)

process_folder(path_kind, rec) ==
    process_folder_call(path_kind, rec) /\ UNCHANGED outside_batch

\* Variant: the thread returns when the loop is over, the code after it skipped.
next_pc_returns_early(b) == IF idx[b] + 1 < Len(images[b]) THEN "call" ELSE "done"

\* Variant: no save after the loop.
next_pc_no_final_save(b) == IF idx[b] + 1 < Len(images[b]) THEN "call" ELSE "set_completed"

\* Where the loop goes after the iteration for idx[b] has ended.
next_pc(b) == IF idx[b] + 1 < Len(images[b]) THEN "call" ELSE "final_save"

\* pc of the loop entry: the for loop may have nothing to iterate.
loop_entry(b) == IF Len(images[b]) > 0 THEN "call" ELSE "final_save"

\* _process_batch_thread 105-108
thread_set_processing(b) ==
    /\ pc[b] = "set_processing"
    /\ batch_lock = 0
    /\ active_batches' = [active_batches EXCEPT ![b].status = "processing",
                                                ![b].start_time = "set"]
    /\ pc' = [pc EXCEPT ![b] = loop_entry(b)]
    /\ UNCHANGED <<outside_batch, folder, checkpoint_interval, progress_file, batch_lock, images, idx,
                   image_data_map, image_data, recursive, last_result, store_at_start,
                   calls, desc_error, save_ok>>

\* _process_batch_thread 115: self.processor.process_image(image_path, ...)
thread_process_image(b, resize, conn) ==
    /\ pc[b] = "call"
    /\ LET p == images[b][idx[b] + 1]
           r == process_image(p, resize, conn)
       IN  /\ calls' = [calls EXCEPT ![b] = Append(@, p)]
           /\ desc_error' = IF r.described /\ conn = "conn_error" /\ desc_error = NoDescError
                            THEN [batch_id |-> b, path |-> p] ELSE desc_error
           /\ image_data' = [image_data EXCEPT ![b] = r.data]
           /\ pc' = [pc EXCEPT ![b] = IF r.raised THEN "exc_inc" ELSE "upd_inc"]
    /\ UNCHANGED <<outside_batch, folder, checkpoint_interval, progress_file, active_batches, batch_lock,
                   images, idx, image_data_map, recursive, last_result, store_at_start,
                   save_ok>>

\* _process_batch_thread 118-121: take the lock, completed_images += 1
thread_update_completed(b) ==
    /\ pc[b] = "upd_inc"
    /\ batch_lock = 0
    /\ batch_lock' = b
    /\ active_batches' = [active_batches EXCEPT ![b].completed_images = @ + 1]
    /\ pc' = [pc EXCEPT ![b] = "upd_append"]
    /\ UNCHANGED <<outside_batch, folder, checkpoint_interval, progress_file, images, idx,
                   image_data_map, image_data, recursive, last_result, store_at_start,
                   calls, desc_error, save_ok>>

\* Variant: idx tested instead of idx + 1.
checkpoint_due_on_idx(i, interval) ==
    IF interval = 0 THEN "raise"
    ELSE IF i % interval = 0 THEN "yes" ELSE "no"

\* The test of line 128: "raise" is the ZeroDivisionError of a zero interval.
checkpoint_due(i, interval) ==
    IF interval = 0 THEN "raise"
    ELSE IF (i + 1) % interval = 0 THEN "yes" ELSE "no"

\* Variant: the checkpoint of lines 128-130 placed inside the with block.
thread_append_processed_saves_locked(b) ==
    /\ pc[b] = "upd_append"
    /\ batch_lock = b
    /\ batch_lock' = IF checkpoint_due(idx[b], checkpoint_interval) = "yes" THEN b ELSE 0
    /\ LET p == images[b][idx[b] + 1]
           due == checkpoint_due(idx[b], checkpoint_interval)
       IN  /\ active_batches' = [active_batches EXCEPT ![b].processed_files = Append(@, p)]
           /\ image_data_map' = [image_data_map EXCEPT ![b] =
                    [k \in DOMAIN @ \cup {p} |-> IF k = p THEN image_data[b] ELSE @[k]]]
           /\ image_data' = [image_data EXCEPT ![b] = NoImageData]
           /\ IF due = "raise"
              THEN pc' = [pc EXCEPT ![b] = "exc_inc"] /\ idx' = idx
              ELSE IF due = "yes"
              THEN pc' = [pc EXCEPT ![b] = "checkpoint"] /\ idx' = idx
              ELSE /\ pc' = [pc EXCEPT ![b] = next_pc(b)]
                   /\ idx' = [idx EXCEPT ![b] = @ + 1]
    /\ UNCHANGED <<outside_batch, folder, checkpoint_interval, progress_file, images, recursive,
                   last_result, store_at_start, calls, desc_error, save_ok>>

\* _process_batch_thread 122-128: processed_files.append(image_path), release the
\* lock; then, local to the thread, store the record and test for a checkpoint.
thread_append_processed(b) ==
    /\ pc[b] = "upd_append"
    /\ batch_lock = b
    /\ batch_lock' = 0
    /\ LET p == images[b][idx[b] + 1]
           due == checkpoint_due(idx[b], checkpoint_interval)
       IN  /\ active_batches' = [active_batches EXCEPT ![b].processed_files = Append(@, p)]
           /\ image_data_map' = [image_data_map EXCEPT ![b] =
                    [k \in DOMAIN @ \cup {p} |-> IF k = p THEN image_data[b] ELSE @[k]]]
           /\ image_data' = [image_data EXCEPT ![b] = NoImageData]
           /\ IF due = "raise"
              THEN pc' = [pc EXCEPT ![b] = "exc_inc"] /\ idx' = idx
              ELSE IF due = "yes"
              THEN pc' = [pc EXCEPT ![b] = "checkpoint"] /\ idx' = idx
              ELSE /\ pc' = [pc EXCEPT ![b] = next_pc(b)]
                   /\ idx' = [idx EXCEPT ![b] = @ + 1]
    /\ UNCHANGED <<outside_batch, folder, checkpoint_interval, progress_file, images, recursive,
                   last_result, store_at_start, calls, desc_error, save_ok>>

\* _process_batch_thread 129: the checkpoint save
thread_checkpoint(b, io) ==
    /\ pc[b] = "checkpoint"
    /\ progress_file' = save_progress(progress_file, image_data_map[b], io)
    /\ save_ok' = [save_ok EXCEPT ![b] = IF io = "ok" THEN "ok" ELSE "error"]
    /\ pc' = [pc EXCEPT ![b] = next_pc(b)]
    /\ idx' = [idx EXCEPT ![b] = @ + 1]
    /\ UNCHANGED <<outside_batch, folder, checkpoint_interval, active_batches, batch_lock, images,
                   image_data_map, image_data, recursive, last_result, store_at_start,
                   calls, desc_error>>

\* Variant: a per-image failure also marks the whole batch failed.
thread_except_fails_batch(b) ==
    /\ pc[b] = "exc_inc"
    /\ batch_lock = 0
    /\ batch_lock' = b
    /\ active_batches' = [active_batches EXCEPT ![b].failed_images = @ + 1,
                                                ![b].status = "failed"]
    /\ image_data' = [image_data EXCEPT ![b] = NoImageData]
    /\ pc' = [pc EXCEPT ![b] = "exc_append"]
    /\ UNCHANGED <<outside_batch, folder, checkpoint_interval, progress_file, images, idx,
                   image_data_map, recursive, last_result, store_at_start, calls,
                   desc_error, save_ok>>

\* _process_batch_thread 132-137: take the lock, failed_images += 1
thread_except_failed(b) ==
    /\ pc[b] = "exc_inc"
    /\ batch_lock = 0
    /\ batch_lock' = b
    /\ active_batches' = [active_batches EXCEPT ![b].failed_images = @ + 1]
    /\ image_data' = [image_data EXCEPT ![b] = NoImageData]
    /\ pc' = [pc EXCEPT ![b] = "exc_append"]
    /\ UNCHANGED <<outside_batch, folder, checkpoint_interval, progress_file, images, idx,
                   image_data_map, recursive, last_result, store_at_start, calls,
                   desc_error, save_ok>>

\* _process_batch_thread 138: failed_files.append(image_path), release the lock
thread_append_failed(b) ==
    /\ pc[b] = "exc_append"
    /\ batch_lock = b
    /\ batch_lock' = 0
    /\ active_batches' = [active_batches EXCEPT
                             ![b].failed_files = Append(@, images[b][idx[b] + 1])]
    /\ pc' = [pc EXCEPT ![b] = next_pc(b)]
    /\ idx' = [idx EXCEPT ![b] = @ + 1]
    /\ UNCHANGED <<outside_batch, folder, checkpoint_interval, progress_file, images, image_data_map,
                   image_data, recursive, last_result, store_at_start, calls,
                   desc_error, save_ok>>

\* Variant: _save_progress without its try/except; the error of the final
\* save reaches the handler of lines 152-157.
thread_final_save_propagates(b, io) ==
    /\ pc[b] = "final_save"
    /\ batch_lock = 0
    /\ progress_file' = save_progress(progress_file, image_data_map[b], io)
    /\ save_ok' = [save_ok EXCEPT ![b] = IF io = "ok" THEN "ok" ELSE "error"]
    /\ IF io = "ok"
       THEN pc' = [pc EXCEPT ![b] = "set_completed"] /\ UNCHANGED active_batches
       ELSE /\ pc' = [pc EXCEPT ![b] = "done"]
            /\ active_batches' = [active_batches EXCEPT ![b].status = "failed",
                                                        ![b].end_time = "set"]
    /\ UNCHANGED <<outside_batch, folder, checkpoint_interval, batch_lock, images, idx,
                   image_data_map, image_data, recursive, last_result, store_at_start,
                   calls, desc_error>>

\* _process_batch_thread 141: the final save
thread_final_save(b, io) ==
    /\ pc[b] = "final_save"
    /\ progress_file' = save_progress(progress_file, image_data_map[b], io)
    /\ save_ok' = [save_ok EXCEPT ![b] = IF io = "ok" THEN "ok" ELSE "error"]
    /\ pc' = [pc EXCEPT ![b] = "set_completed"]
    /\ UNCHANGED <<outside_batch, folder, checkpoint_interval, active_batches, batch_lock, images, idx,
                   image_data_map, image_data, recursive, last_result, store_at_start,
                   calls, desc_error>>

\* _process_batch_thread 144-148
thread_set_completed(b) ==
    /\ pc[b] = "set_completed"
    /\ batch_lock = 0
    /\ active_batches' = [active_batches EXCEPT ![b].status = "completed",
                                                ![b].end_time = "set"]
    /\ pc' = [pc EXCEPT ![b] = "done"]
    /\ UNCHANGED <<outside_batch, folder, checkpoint_interval, progress_file, batch_lock, images, idx,
                   image_data_map, image_data, recursive, last_result, store_at_start,
                   calls, desc_error, save_ok>>

Next ==
    \/ \E rec \in BOOLEAN : process_folder("dir", rec)
    \/ \E b \in BatchIds : thread_set_processing(b)
    \/ \E b \in BatchIds, resize \in {"ok", "throws"}, conn \in {"ok", "conn_error"} :
            thread_process_image(b, resize, conn)
    \/ \E b \in BatchIds : thread_update_completed(b)
    \/ \E b \in BatchIds : thread_append_processed(b)
    \/ \E b \in BatchIds, io \in IoOutcomes : thread_checkpoint(b, io)
    \/ \E b \in BatchIds : thread_except_failed(b)
    \/ \E b \in BatchIds : thread_append_failed(b)
    \/ \E b \in BatchIds, io \in IoOutcomes : thread_final_save(b, io)
    \/ \E b \in BatchIds : thread_set_completed(b)

Spec == Init /\ [][Next]_vars

SpecDescribe == InitDescribe /\ [][Next]_vars

\* The steps of the background thread of batch b (threading.Thread, lines 90-95).
batch_thread(b) ==
    \/ thread_set_processing(b)
    \/ \E resize \in {"ok", "throws"}, conn \in {"ok", "conn_error"} :
            thread_process_image(b, resize, conn)
    \/ thread_update_completed(b)
    \/ thread_append_processed(b)
    \/ \E io \in IoOutcomes : thread_checkpoint(b, io)
    \/ thread_except_failed(b)
    \/ thread_append_failed(b)
    \/ \E io \in IoOutcomes : thread_final_save(b, io)
    \/ thread_set_completed(b)

\* The same program under a fair scheduler: a started thread that can take a
\* step is not held back for ever; every process_image and _save_progress call
\* returns (each is one step).
\* The program started on a folder whose progress file is missing or holds
\* the record of the first path.
InitFair ==
    /\ Init
    /\ progress_file \in {FileOf("missing", <<>>),
                          yaml_dump([p \in {1} |-> StoredRecord(p)])}

SpecFair == InitFair /\ [][Next]_vars /\ \A b \in BatchIds : WF_vars(batch_thread(b))

\* What a status call hands to its caller: references to the BatchProgress
\* objects of the registry (ids), here with the value each had on return.
Returned(ids) == [ids |-> ids, at_return |-> [b \in ids |-> active_batches[b]]]

\* BatchProcessor.get_batch_status: under the lock, _active_batches.get(batch_id),
\* the registered object itself, or None.
get_batch_status(batch_id) ==
    /\ batch_lock = 0
    /\ handle' = Returned({batch_id} \cap DOMAIN active_batches)
    /\ UNCHANGED <<batch_vars, extractor_vars, pipeline_vars, response>>

\* BatchProcessor.get_all_batches: under the lock, _active_batches.copy(), a new
\* dict holding the registered objects themselves.
get_all_batches ==
    /\ batch_lock = 0
    /\ handle' = Returned(DOMAIN active_batches)
    /\ UNCHANGED <<batch_vars, extractor_vars, pipeline_vars, response>>

\* What the caller reads through the returned value (api/main.py 231, 257:
\* model_dump(), outside the lock): the objects as they are now.
seen_by_caller == [b \in handle.ids |-> active_batches[b]]

\* The same program with callers of the two status operations.
NextReader ==
    \/ Next
    \/ \E batch_id \in BatchIds : get_batch_status(batch_id)
    \/ get_all_batches

SpecReader == Init /\ [][NextReader]_vars

\* ------------------------------------------------------- the batch routes
\* POST /api/batch/process (api/main.py 174-212).  The route's own check raises
\* HTTPException(400) inside the try; HTTPException is no ValueError, so the
\* handler of line 210 catches it and raises HTTPException(500).  A ValueError
\* of process_folder becomes 400, any other exception 500.
start_batch_processing(path_kind, rec) ==
    IF path_kind # "dir"
    THEN /\ response' = [route |-> "start_batch_processing", cause |-> "invalid_folder",
                         status_code |-> 500]
         /\ UNCHANGED <<batch_vars, handle, extractor_vars, pipeline_vars>>
    ELSE /\ process_folder_call(path_kind, rec)
         /\ response' =
              [route |-> "start_batch_processing",
               cause |-> CASE last_result'.kind = "ValueError" -> "invalid_folder"
                           [] last_result'.kind = "Exception" -> "internal"
                           [] OTHER -> "none",
               status_code |-> CASE last_result'.kind = "ValueError" -> 400
                                 [] last_result'.kind = "Exception" -> 500
                                 [] OTHER -> 200]
         /\ UNCHANGED <<handle, extractor_vars, pipeline_vars>>

\* GET /api/batch/status/{batch_id} (api/main.py 215-244): None gives 404, which
\* the handler of line 240 lets through.
batch_status_route(batch_id) ==
    /\ batch_lock = 0
    /\ handle' = Returned({batch_id} \cap DOMAIN active_batches)
    /\ response' = IF batch_id \in DOMAIN active_batches
                   THEN [route |-> "get_batch_status", cause |-> "none", status_code |-> 200]
                   ELSE [route |-> "get_batch_status", cause |-> "unknown_batch",
                         status_code |-> 404]
    /\ UNCHANGED <<batch_vars, extractor_vars, pipeline_vars>>

\* The same program behind its HTTP routes.
NextApi ==
    \/ Next
    \/ \E path_kind \in PathKinds, rec \in BOOLEAN : start_batch_processing(path_kind, rec)
    \/ \E batch_id \in BatchIds : batch_status_route(batch_id)

SpecApi == InitFair /\ [][NextApi]_vars

\* The same program, its callers also passing paths that name no directory.
NextAnyPath ==
    \/ Next
    \/ \E path_kind \in PathKinds \ {"dir"}, rec \in BOOLEAN : process_folder(path_kind, rec)

SpecAnyPath == InitFair /\ [][NextAnyPath]_vars

\* Two callers on the same folder: a process_folder call arrives while every
\* batch registered before it is still running.
NextConcurrent ==
    \/ \E rec \in BOOLEAN :
            /\ \A b \in DOMAIN active_batches : active_batches[b].status # "completed"
            /\ process_folder_in(CallerIds, "dir", rec)
            /\ UNCHANGED outside_batch
    \/ \E b \in CallerIds : thread_set_processing(b)
    \/ \E b \in CallerIds, resize \in {"ok", "throws"}, conn \in {"ok", "conn_error"} :
            thread_process_image(b, resize, conn)
    \/ \E b \in CallerIds : thread_update_completed(b)
    \/ \E b \in CallerIds : thread_append_processed(b)
    \/ \E b \in CallerIds, io \in IoOutcomes : thread_checkpoint(b, io)
    \/ \E b \in CallerIds : thread_except_failed(b)
    \/ \E b \in CallerIds : thread_append_failed(b)
    \/ \E b \in CallerIds, io \in IoOutcomes : thread_final_save(b, io)
    \/ \E b \in CallerIds : thread_set_completed(b)

SpecConcurrent == InitFair /\ [][NextConcurrent]_vars

\* --------------------------------------------------- the extractor's steps
\* TextExtractor()
TextExtractor_init ==
    /\ extractor.state = "unconstructed"
    /\ extractor' = initialize_models(ocr_env)
    /\ UNCHANGED <<batch_vars, handle, pipeline_vars, ocr_env, extraction, response>>

\* extractor.extract_text(image_path)
call_extract_text(path_kind, detect, engine) ==
    /\ extractor.state = "constructed"
    /\ LET r == extract_text(extractor, path_kind, detect, engine)
       IN  extraction' = [op |-> "extract_text", path_kind |-> path_kind,
                          detect |-> detect, engine |-> engine,
                          raised |-> r.raised, text |-> r.text, invoked |-> r.invoked,
                          method_used |-> None]
    /\ UNCHANGED <<batch_vars, handle, pipeline_vars, ocr_env, extractor, response>>

\* extractor.extract_text_with_details(image_path)
call_extract_text_with_details(path_kind, detect, engine) ==
    /\ extractor.state = "constructed"
    /\ LET r == extract_text(extractor, path_kind, detect, engine)
       IN  extraction' = [op |-> "extract_text_with_details", path_kind |-> path_kind,
                          detect |-> detect, engine |-> engine,
                          raised |-> r.raised,
                          text |-> r.text, invoked |-> r.invoked,
                          method_used |-> IF r.raised THEN None ELSE method_used(extractor)]
    /\ UNCHANGED <<batch_vars, handle, pipeline_vars, ocr_env, extractor, response>>

NextExtractor ==
    \/ TextExtractor_init
    \/ \E path_kind \in ImagePathKinds, detect \in DetectOutcomes, engine \in EngineOutcomes :
            call_extract_text(path_kind, detect, engine)
    \/ \E path_kind \in ImagePathKinds, detect \in DetectOutcomes, engine \in EngineOutcomes :
            call_extract_text_with_details(path_kind, detect, engine)

\* No batch runs; the installation is any of OcrEnvs.
InitExtractor ==
    /\ InitCommon
    /\ folder = {}
    /\ checkpoint_interval = 0
    /\ progress_file = FileOf("missing", <<>>)
    /\ desc_error = NotObserved
    /\ ocr_env \in OcrEnvs
    /\ extractor = Unconstructed
    /\ extraction = NoExtraction
    /\ PipelineAside

SpecExtractor == InitExtractor /\ [][NextExtractor]_vars

\* ------------------------------------- direct calls of the agent and pipeline
\* llm_agent.translate_text(target_language, text, text_context, scene), as
\* test_translate.py and test_translation_fix.py call it.
call_translate_text(text, check, generate) ==
    /\ LET r == translate_text(text, check, generate)
       IN  translation' = [op |-> "translate_text", text |-> text, check |-> check,
                           generate |-> generate, success |-> r.success,
                           translated_text |-> r.translated_text,
                           requests |-> r.requests]
    /\ UNCHANGED <<batch_vars, handle, extractor_vars, pipeline, response>>

\* processor.process_image(image_path), all collaborators answering as given.
call_process_image(p, resize, conn) ==
    /\ LET r == process_image(p, resize, conn)
       IN  pipeline' = [op |-> "process_image", image_path |-> p, resize |-> resize,
                        conn |-> conn, raised |-> r.raised, data |-> r.data,
                        steps |-> r.steps]
    /\ UNCHANGED <<batch_vars, handle, extractor_vars, translation, response>>

NextPipeline ==
    \/ \E text \in Texts, check \in CheckOutcomes, generate \in GenerateOutcomes :
            call_translate_text(text, check, generate)
    \/ \E p \in Paths, resize \in {"ok", "throws"}, conn \in {"ok", "conn_error"} :
            call_process_image(p, resize, conn)

\* No batch runs.
InitPipeline ==
    /\ InitCommon
    /\ folder = {}
    /\ checkpoint_interval = 0
    /\ progress_file = FileOf("missing", <<>>)
    /\ desc_error = NotObserved
    /\ ExtractorAside
    /\ PipelineAside

SpecPipeline == InitPipeline /\ [][NextPipeline]_vars

\* ------------------------------------------------- vocabulary of the claims
\* The keys physically present in a file, and the record stored under one.
StoreKeys(f) ==
    IF f.kind = "map" THEN {f.entries[i][1] : i \in 1..Len(f.entries)} ELSE {}

RecordAt(f, k) ==
    LET i == CHOOSE j \in 1..Len(f.entries) : f.entries[j][1] = k IN f.entries[i][2]

\* The images a batch enumerated when it was started (the folder does not change).
Enumerated(b) == {p \in folder : recursive[b] \/ ~InSubdir(p)}

Registered == DOMAIN active_batches

SavePcs == {"checkpoint", "final_save"}

\* The step is a _save_progress call of batch b.
SaveStep(b) == pc[b] \in SavePcs /\ pc'[b] # pc[b]

LoopOver(b) == pc[b] \in {"final_save", "set_completed", "done"}

\* ---------------------------------------------------------------- claims

\* C1: in every reachable state of a batch, from its registration on,
\* completed_images + failed_images <= total_images.
C1_CountWithinTotal ==
    \A b \in Registered :
        active_batches[b].completed_images + active_batches[b].failed_images
            <= active_batches[b].total_images

\* C2: completed_images + failed_images == total_images holds if and only if
\* status == completed.
C2_EqualIffCompleted ==
    \A b \in Registered :
        (active_batches[b].completed_images + active_batches[b].failed_images
            = active_batches[b].total_images)
        <=> active_batches[b].status = "completed"

\* C3: a batch passes to the orchestrator exactly the enumerated images whose
\* path is not a key of the progress file at start: no keyed image is processed
\* again, and every other enumerated image is attempted exactly once.
C3_ExactlyTheComplement ==
    \A b \in Registered :
        LET todo == Enumerated(b) \ StoreKeys(store_at_start[b])
        IN  /\ Range(calls[b]) \subseteq todo
            /\ \A i, j \in 1..Len(calls[b]) : calls[b][i] = calls[b][j] => i = j
            /\ LoopOver(b) => Range(calls[b]) = todo

C3_Witness ==
    \E b \in Registered :
        /\ pc[b] = "done"
        /\ Enumerated(b) \cap StoreKeys(store_at_start[b]) # {}
        /\ Cardinality(Range(calls[b])) >= 2

\* C4: every save of a batch (checkpoint or final) is given a mapping that holds,
\* for each key loaded from the progress file at start, the record that was
\* loaded, and a save that completes leaves exactly that record in the file.
C4_SavesKeepLoadedRecords ==
    [][\A b \in BatchIds :
          SaveStep(b) =>
             \A k \in StoreKeys(store_at_start[b]) :
                /\ k \in DOMAIN image_data_map[b]
                /\ image_data_map[b][k] = RecordAt(store_at_start[b], k)
                /\ save_ok'[b] = "ok" =>
                      /\ k \in StoreKeys(progress_file')
                      /\ RecordAt(progress_file', k) = RecordAt(store_at_start[b], k)]_vars

C4_Witness ==
    \E b \in Registered :
        /\ pc[b] = "set_completed"
        /\ save_ok[b] = "ok"
        /\ StoreKeys(store_at_start[b]) # {}
        /\ calls[b] # <<>>
        /\ \A k \in StoreKeys(store_at_start[b]) :
              /\ k \in StoreKeys(progress_file)
              /\ RecordAt(progress_file, k) = StoredRecord(k)

\* C5: on a successful start total_images is the number of enumerated images,
\* completed_images the number of those already in the progress file, and
\* pending_images the number of remaining images handed to the thread.
C5_PendingIsRemaining ==
    \A b \in Registered :
        pc[b] = "set_processing" =>
            /\ active_batches[b].total_images = Cardinality(Enumerated(b))
            /\ active_batches[b].completed_images =
                  Cardinality(Enumerated(b) \cap StoreKeys(store_at_start[b]))
            /\ pending_images(active_batches[b]) = Len(images[b])

\* C6 as stated: in a batch with more than checkpoint_interval remaining images,
\* once checkpoint_interval images have been processed the progress file holds
\* entries for those images.
C6_AsStated ==
    \A b \in Registered :
        (/\ checkpoint_interval > 0
         /\ Len(images[b]) > checkpoint_interval
         /\ idx[b] = checkpoint_interval
         /\ pc[b] = "call")
        => \A i \in 1..checkpoint_interval : images[b][i] \in StoreKeys(progress_file)

\* C6 amended: in a batch with more than checkpoint_interval remaining images, the
\* iteration of the checkpoint_interval-th image ends with a checkpoint save, and
\* when that save completes without error the progress file then holds entries
\* for those checkpoint_interval images.
C6_CheckpointDurable ==
    [][\A b \in BatchIds :
          (/\ checkpoint_interval > 0
           /\ Len(images[b]) > checkpoint_interval
           /\ idx[b] + 1 = checkpoint_interval
           /\ idx'[b] = checkpoint_interval)
          => /\ pc[b] = "checkpoint"
             /\ save_ok'[b] = "ok" =>
                   \A i \in 1..checkpoint_interval :
                       images[b][i] \in StoreKeys(progress_file')]_vars

C6_Witness ==
    \E b \in Registered :
        /\ checkpoint_interval = 2
        /\ Len(images[b]) > checkpoint_interval
        /\ idx[b] = checkpoint_interval
        /\ pc[b] = "call"
        /\ save_ok[b] = "ok"
        /\ \A i \in 1..checkpoint_interval : images[b][i] \in StoreKeys(progress_file)

C8_LoadFailsSoft ==
    /\ last_result.kind # "Exception"
    /\ \A b \in Registered :
          store_at_start[b].kind # "map" =>
             /\ images[b] = get_images_from_folder(folder, recursive[b])
             /\ pc[b] = "set_processing" =>
                   /\ image_data_map[b] = EmptyMap
                   /\ active_batches[b].completed_images = 0
                   /\ active_batches[b].processed_files = <<>>

C8_Witness ==
    \E b \in Registered :
        /\ store_at_start[b].kind = "list"
        /\ pc[b] = "done"
        /\ Enumerated(b) # {}
        /\ Range(calls[b]) = Enumerated(b)

\* C9: a batch's status changes only along pending -> processing -> completed or
\* pending -> processing -> failed; pending is the status at registration, and no
\* step changes the status or a counter of a completed or failed batch.
C9_StatusMachine ==
    [][/\ \A b \in DOMAIN active_batches' \ DOMAIN active_batches :
             active_batches'[b].status = "pending"
       /\ \A b \in DOMAIN active_batches :
             /\ b \in DOMAIN active_batches'
             /\ \/ active_batches'[b].status = active_batches[b].status
                \/ <<active_batches[b].status, active_batches'[b].status>> \in
                      {<<"pending", "processing">>, <<"processing", "completed">>,
                       <<"processing", "failed">>}
             /\ active_batches[b].status \in {"completed", "failed"} =>
                   active_batches'[b] = active_batches[b]]_vars

C9_Witness ==
    \E b \in Registered :
        /\ active_batches[b].status = "completed"
        /\ active_batches[b].end_time = "set"
        /\ active_batches[b].failed_images > 0
        /\ pc[b] = "done"

\* C10: if the description collaborator returns a connection error for one image
\* of a batch, that image increments failed_images and is appended to
\* failed_files, the other images are counted as completed, and the final status
\* is completed.
C10_ConnErrorCountedFailed ==
    \A b \in Registered :
        (desc_error.batch_id = b /\ pc[b] = "done") =>
            /\ desc_error.path \in Range(active_batches[b].failed_files)
            /\ active_batches[b].failed_images >= 1
            /\ \A p \in Range(images[b]) \ {desc_error.path} :
                  p \in Range(active_batches[b].processed_files)
            /\ active_batches[b].status = "completed"

\* C11: process_folder on a path that does not exist, that is not a directory,
\* or under which no supported image is found, fails with the invalid-input
\* error (ValueError); that call adds no batch to the registry, starts no
\* background thread and leaves the progress file as it was.
C11_InvalidInputRejected ==
    [][\A path_kind \in PathKinds, rec \in BOOLEAN :
          (/\ path_kind # "dir" \/ get_images_from_folder(folder, rec) = <<>>
           /\ process_folder(path_kind, rec))
          => /\ last_result'.kind = "ValueError"
             /\ UNCHANGED <<active_batches, pc, progress_file>>]_vars

\* The call failed although the folder holds a top-level image: what it was
\* given names no directory.
C11_Witness ==
    /\ last_result.kind = "ValueError"
    /\ \E p \in folder : ~InSubdir(p)
    /\ Registered = {}
    /\ \A b \in BatchIds : pc[b] = "unborn"

\* C12: a checkpoint save or final save that fails (the file cannot be opened
\* or written) is not propagated: the step changes no counter and no file list
\* of any batch, the thread goes on exactly as after a successful save (next
\* image, or the end of the loop), and the step that ends the batch sets
\* status completed.
C12_SaveFailureSwallowed ==
    [][\A b \in Registered :
          /\ (SaveStep(b) /\ save_ok'[b] = "error")
                => /\ active_batches' = active_batches
                   /\ pc'[b] = IF pc[b] = "checkpoint" THEN next_pc(b) ELSE "set_completed"
                   /\ idx'[b] = IF pc[b] = "checkpoint" THEN idx[b] + 1 ELSE idx[b]
          /\ (pc[b] # "done" /\ pc'[b] = "done")
                => /\ pc[b] = "set_completed"
                   /\ active_batches'[b].status = "completed"]_vars

\* A batch whose checkpoint and final saves all failed, ended completed, the
\* file still missing.
C12_Witness ==
    \E b \in Registered :
        /\ pc[b] = "done"
        /\ save_ok[b] = "error"
        /\ active_batches[b].status = "completed"
        /\ Len(calls[b]) >= 2
        /\ progress_file.kind = "missing"

\* C13: under fair scheduling, every pipeline call and every save returning,
\* each batch that process_folder registered eventually has status completed
\* or failed: none stays pending or processing for ever.
C13_EveryBatchEnds ==
    \A b \in BatchIds :
        (b \in Registered)
            ~> (b \in Registered /\ active_batches[b].status \in {"completed", "failed"})

\* A batch that went through pending and processing over several images, none
\* of them failed, and ended.
C13_Witness ==
    \E b \in Registered :
        /\ active_batches[b].status \in {"completed", "failed"}
        /\ active_batches[b].start_time = "set"
        /\ active_batches[b].failed_images = 0
        /\ Len(calls[b]) = NumPaths

\* C14: the BatchRecord a status call returned is a snapshot copy: what the
\* caller reads through it stays what it was when the call returned, whatever
\* the background thread does afterwards, and it is never a record changed
\* half-way (completed_images incremented, processed_files not yet extended).
C14_SnapshotCopy ==
    \A b \in handle.ids :
        /\ seen_by_caller[b] = handle.at_return[b]
        /\ seen_by_caller[b].completed_images = Len(seen_by_caller[b].processed_files)

\* Vocabulary of the extractor's claims.
Tier1ArtifactsAbsent == ~(ocr_env.craft_file /\ ocr_env.crnn_file)

Called == extractor.state = "constructed" /\ extraction.op # "none"

\* The last call ran the detector and it raised; ran the recognizer or a
\* fallback engine and it raised.
DetectorRaised == "craft_model" \in extraction.invoked /\ extraction.detect = "throws"
EngineRaised == extraction.invoked \ {"craft_model"} # {} /\ extraction.engine = "throws"

\* C15: on an instance constructed with the Tier-1 model files absent and
\* keras-ocr (fallback A) available, no call invokes the Tier-1 detector or
\* recognizer, and extract_text_with_details reports 'keras-ocr' as the method.
C15_FallbackAOnly ==
    (Called /\ Tier1ArtifactsAbsent /\ ocr_env.keras_ocr = "ok")
        => /\ extraction.invoked \cap {"craft_model", "crnn_model"} = {}
           /\ extraction.op = "extract_text_with_details"
                => extraction.method_used = Str("keras-ocr")

\* With tesseract installed as well, a details call on a readable image was
\* served by keras-ocr.
C15_Witness ==
    /\ Called /\ Tier1ArtifactsAbsent
    /\ ocr_env.keras_ocr = "ok" /\ ocr_env.tesseract = "ok"
    /\ extraction.op = "extract_text_with_details"
    /\ extraction.invoked = {"keras-ocr"}
    /\ extraction.text # <<>>

\* C16: extract_text_with_details never raises and always reports the method
\* as a string; with no tier available (model files absent, neither fallback
\* engine usable) the text is empty and the method is the string "none".
C16_NoneSentinel ==
    (Called /\ extraction.op = "extract_text_with_details")
        => /\ ~extraction.raised
           /\ extraction.method_used.type = "str"
           /\ (Tier1ArtifactsAbsent /\ extractor.fallback_pipeline = "None")
                => /\ extraction.text = <<>>
                   /\ extraction.method_used = Str("none")

C18_EmptyShortCircuit ==
    (translation.op = "translate_text" /\ IsBlank(translation.text))
        => /\ translation.success
           /\ translation.translated_text = ""
           /\ translation.requests = <<>>

\* Vocabulary: some step of the last process_image call threw.
StepThrew ==
    \/ pipeline.resize = "throws"
    \/ "translate_text" \in Range(pipeline.steps) /\ TranslateArgs < TranslateParams

\* C19: process_image never raises; when a step throws, what it returns is
\* the record with the image name and the metadata with the elapsed duration,
\* every other field at its default.
C19_NeverRaises ==
    pipeline.op = "process_image"
        => /\ ~pipeline.raised
           /\ pipeline.data.image_name = pipeline.image_path
           /\ pipeline.data.processing_time = "elapsed"
           /\ StepThrew => pipeline.data = PartialImageData(pipeline.image_path)

\* resize_image threw: the call stopped after the second step and returned
\* the partial record.
C19_Witness ==
    /\ pipeline.op = "process_image"
    /\ pipeline.resize = "throws"
    /\ pipeline.steps = <<"extract_text", "resize_image">>
    /\ pipeline.data = PartialImageData(pipeline.image_path)

\* C20: when extraction, resize, description and the translation service all
\* succeed, process_image goes through extraction, resize, description, the
\* translations and assembly in that order, and returns the record with the
\* extracted text, the translations, the description and the resized size.
C20_FullRecord ==
    (pipeline.op = "process_image" /\ pipeline.resize = "ok" /\ pipeline.conn = "ok")
        => /\ pipeline.steps = AllSteps
           /\ pipeline.data = FullImageData(pipeline.image_path, "desc")

\* C21: the API answers a batch start on an invalid folder (missing, not a
\* directory, or without images) with a client error (4xx), a status query for
\* an unknown batch_id with 404, and with a server error (5xx) only an internal
\* failure.
C21_ErrorClasses ==
    /\ response.cause = "invalid_folder" => response.status_code \in 400..499
    /\ response.cause = "unknown_batch" => response.status_code = 404
    /\ response.status_code >= 500 => response.cause = "internal"

\* C22: status completed is set only after every remaining image was attempted
\* (each is in processed_files or in failed_files) and after the final save was
\* called; the final save is given a mapping that holds every record loaded at
\* start and a record for every image of processed_files the batch handled,
\* whatever the number of images and the checkpoint interval.
C22_CompletedAfterFinalSave ==
    [][\A b \in Registered :
          /\ (active_batches[b].status # "completed"
                /\ active_batches'[b].status = "completed")
                => /\ pc[b] = "set_completed"
                   /\ calls[b] = images[b]
                   /\ \A p \in Range(images[b]) :
                         p \in Range(active_batches[b].processed_files)
                                 \cup Range(active_batches[b].failed_files)
                   /\ save_ok[b] # "none"
          /\ (pc[b] = "final_save" /\ pc'[b] # pc[b])
                => /\ pc'[b] = "set_completed"
                   /\ \E io \in IoOutcomes :
                         progress_file' = save_progress(progress_file, image_data_map[b], io)
                   /\ \A k \in StoreKeys(store_at_start[b]) :
                         /\ k \in DOMAIN image_data_map[b]
                         /\ image_data_map[b][k] = RecordAt(store_at_start[b], k)
                   /\ \A p \in Range(calls[b]) \cap Range(active_batches[b].processed_files) :
                         /\ p \in DOMAIN image_data_map[b]
                         /\ image_data_map[b][p].image_name = p]_vars

\* Three images with a checkpoint every two: the batch is completed and the
\* file, written by the final save, holds all three.
C22_Witness ==
    \E b \in Registered :
        /\ active_batches[b].status = "completed"
        /\ checkpoint_interval = 2
        /\ Len(calls[b]) = 3
        /\ save_ok[b] = "ok"
        /\ StoreKeys(progress_file) = Range(calls[b])

C24_OneAtATimeInOrder ==
    [][\A b \in Registered :
          calls'[b] # calls[b]
             => /\ Len(calls[b]) = idx[b]
                /\ calls'[b] = Append(calls[b], images[b][idx[b] + 1])
                /\ image_data[b] = NoImageData
                /\ batch_lock # b
                /\ calls[b] # <<>> =>
                      LET prev == calls[b][Len(calls[b])]
                      IN  /\ prev < images[b][idx[b] + 1]
                          /\ prev \in Range(active_batches[b].processed_files)
                                        \cup Range(active_batches[b].failed_files)
                          /\ active_batches[b].completed_images
                                = Len(active_batches[b].processed_files)
                          /\ active_batches[b].failed_images
                                = Len(active_batches[b].failed_files)
                          /\ checkpoint_due(idx[b] - 1, checkpoint_interval) = "yes"
                                => save_ok[b] # "none"]_vars

\* A recursive batch called process_image for three images, a checkpoint after
\* the second.
C24_Witness ==
    \E b \in Registered :
        /\ recursive[b]
        /\ checkpoint_interval = 2
        /\ calls[b] = <<1, 2, 3>>
        /\ pc[b] = "upd_inc"

\* C25: whenever the lock is free, every registered batch has completed_images
\* equal to the length of processed_files and failed_images equal to the length
\* of failed_files; and each of the two lists changes only by having one
\* element appended.
C25_CountersMatchLists ==
    /\ [](batch_lock = 0 =>
            \A b \in Registered :
                /\ active_batches[b].completed_images
                      = Len(active_batches[b].processed_files)
                /\ active_batches[b].failed_images
                      = Len(active_batches[b].failed_files))
    /\ [][\A b \in Registered :
             /\ \/ active_batches'[b].processed_files = active_batches[b].processed_files
                \/ \E p \in Paths : active_batches'[b].processed_files
                                      = Append(active_batches[b].processed_files, p)
             /\ \/ active_batches'[b].failed_files = active_batches[b].failed_files
                \/ \E p \in Paths : active_batches'[b].failed_files
                                      = Append(active_batches[b].failed_files, p)]_vars

\* The lock is free on a batch that was seeded from a non-empty progress file
\* and then counted one image completed and one failed.
C25_Witness ==
    /\ batch_lock = 0
    /\ \E b \in Registered :
          /\ StoreKeys(store_at_start[b]) # {}
          /\ active_batches[b].completed_images = 2
          /\ active_batches[b].failed_images = 1

\* C26: for every checkpoint_interval, 0 included, and every pipeline outcome,
\* an attempted image is in exactly one of processed_files and failed_files
\* and is counted by exactly one counter: no image is in both lists, every
\* image of a completed batch is in one of them, and the two counters together
\* count the records loaded at the start plus one per attempted image.
C26_ExactlyOneOutcome ==
    \A b \in Registered :
        /\ Range(active_batches[b].processed_files)
              \cap Range(active_batches[b].failed_files) = {}
        /\ active_batches[b].status = "completed"
              => \A p \in Range(calls[b]) :
                    p \in Range(active_batches[b].processed_files)
                            \cup Range(active_batches[b].failed_files)
        /\ batch_lock = 0
              => active_batches[b].completed_images + active_batches[b].failed_images
                    <= Cardinality(StoreKeys(store_at_start[b])) + Len(calls[b])

\* C27: when two batches run concurrently on one folder, no image is run by
\* both; no save that succeeds removes a key the Progress Store held; and once
\* both have completed with their saves succeeding, the store holds a record
\* for every image either of them processed.
C27_ConcurrentBatches ==
    /\ [](\A b1 \in Registered, b2 \in Registered :
             /\ b1 # b2 => Range(calls[b1]) \cap Range(calls[b2]) = {}
             /\ ( /\ b1 # b2
                  /\ \A b \in {b1, b2} : /\ active_batches[b].status = "completed"
                                         /\ save_ok[b] = "ok" )
                   => Range(active_batches[b1].processed_files)
                         \subseteq StoreKeys(progress_file))
    /\ [][\A b \in Registered :
             (SaveStep(b) /\ save_ok'[b] = "ok")
                => StoreKeys(progress_file) \subseteq StoreKeys(progress_file')]_vars

\* The tier extract_text dispatches to (lines 279-283 and the fallback_method
\* test of 315-320), and the tiers an installation can provide.
ResolvedTier(ex) ==
    IF ex.craft_model \/ ex.crnn_model THEN "tier1"
    ELSE IF ex.fallback_method = Str("keras-ocr") THEN "fallback_a"
    ELSE IF ex.fallback_method = Str("tesseract") THEN "fallback_b"
    ELSE "none"

Tier1Available(env) ==
    /\ env.tensorflow = "ok"
    /\ env.craft_file /\ env.crnn_file
    /\ env.craft_loads \/ env.crnn_loads

HighestAvailableTier(env) ==
    IF Tier1Available(env) THEN "tier1"
    ELSE IF env.keras_ocr = "ok" THEN "fallback_a"
    ELSE IF env.tesseract = "ok" THEN "fallback_b"
    ELSE "none"

\* C28: constructing the extractor always completes, and the tier it resolves
\* to is the highest-ranked one the installation can provide, in the order
\* Tier 1, keras-ocr, tesseract, none; Tier 1 cannot be provided when its model
\* files are absent or fail to load, a fallback when it cannot be initialised.
C28_HighestAvailableTier ==
    extractor.state # "unconstructed"
        => /\ extractor.state = "constructed"
           /\ ResolvedTier(extractor) = HighestAvailableTier(ocr_env)

Tier1Invoked == extraction.invoked \cap {"craft_model", "crnn_model"} # {}

\* C29 as stated: a call is served by Tier 1, or reports the name
\* "tensorflow", only when both the detector and the recognizer were loaded.
C29_AsStated ==
    Called
        => ( (Tier1Invoked \/ extraction.method_used = Str("tensorflow"))
                => extractor.craft_model /\ extractor.crnn_model )

\* C29: a call on a readable image is served by Tier 1, and
\* extract_text_with_details reports the name "tensorflow", when at least one
\* of the detector and the recognizer was loaded; only when both are missing
\* is the call served by the resolved fallback engine, or returns the empty
\* string without invoking any engine, and the fallback's name is reported.
C29_Tier1WhenEitherLoaded ==
    Called
        => /\ extraction.op = "extract_text_with_details"
                => extraction.method_used
                     = IF extractor.craft_model \/ extractor.crnn_model
                       THEN Str("tensorflow") ELSE extractor.fallback_method
           /\ extraction.path_kind = "image"
                => IF extractor.craft_model \/ extractor.crnn_model
                   THEN /\ Tier1Invoked
                        /\ extraction.invoked \subseteq {"craft_model", "crnn_model"}
                   ELSE /\ ~Tier1Invoked
                        /\ extraction.invoked
                             = IF extractor.fallback_method = None THEN {}
                               ELSE {extractor.fallback_method.value}
                        /\ extraction.invoked = {} => extraction.text = <<>>

\* extract_text_with_details on a readable image, detector loaded and
\* recognizer not: "tensorflow" is reported.
C29_Witness ==
    /\ Called
    /\ extraction.op = "extract_text_with_details"
    /\ extraction.path_kind = "image"
    /\ extractor.craft_model /\ ~extractor.crnn_model
    /\ extraction.invoked = {"craft_model"}
    /\ extraction.method_used = Str("tensorflow")

EnginesOf(tier) ==
    CASE tier = "tier1"      -> {"craft_model", "crnn_model"}
      [] tier = "fallback_a" -> {"keras-ocr"}
      [] tier = "fallback_b" -> {"tesseract"}
      [] OTHER               -> {}

====
